---------------------------- MODULE Spec2Model ----------------------------
(***************************************************************************)
(* A model of conceptor/reservoir.py (class Reservoir).                    *)
(*                                                                         *)
(* The reservoir is modelled with size_in = size_net = 1, so that every    *)
(* matrix of the class is a row of scalars (a 1 x L matrix is the sequence *)
(* of its L columns) and every size_net x size_net matrix is one scalar.   *)
(* Scalars are exact rationals <<n, d>> in lowest terms with d > 0; the    *)
(* pair <<0, 0>> is numpy's nan (0.0 / 0).  TLC has no transcendental      *)
(* functions: np.tanh is modelled by the rational sigmoid z / (1 + |z|),   *)
(* which like tanh is odd, strictly increasing and has the open range      *)
(* (-1, 1), and np.arctanh by its inverse y / (1 - |y|).                   *)
(***************************************************************************)
EXTENDS Integers, Sequences, FiniteSets, TLC

VARIABLES self,    \* the fields of the Reservoir instance
          last,    \* the call made last: its name, its arguments, whether it raised
          driven,  \* the <<pattern, washout>> calls of drive_reservoir that returned,
                   \* since construction or the last clean_storage
          ret,     \* the value the last call returned (recognition_predict)
          misused  \* whether some drive_reservoir call so far was given a
                   \* washout_length >= the length of its pattern

vars == <<self, last, driven, ret, misused>>

-----------------------------------------------------------------------------
(* Bounds of the model *)

MaxLen == 3        \* the longest pattern (columns)
MaxPatterns == 2   \* how many patterns are driven before the model stops driving
MaxBundle == 1     \* how many direct compute_projector calls fill one bundle
MaxCols == 2       \* recognition_predict: columns of testdata
MaxConceptors == 2 \* recognition_predict: length of C_list
PredDim == 2       \* recognition_predict: rows of testdata, order of a conceptor

(* The configuration the instance is constructed with *)

size_in == 1
size_net == 1
sr == 1
in_scale == 1
bias_scale == 0
varrho_out == 1
varrho_w == 1
default_alpha == 10

-----------------------------------------------------------------------------
(* Exact rational arithmetic, with nan *)

NaN == <<0, 0>>

Abs(n) == IF n < 0 THEN -n ELSE n

RECURSIVE GCD(_, _)
GCD(a, b) == IF b = 0 THEN a ELSE GCD(b, a % b)

Rat(n, d) ==
  IF d = 0 THEN NaN
  ELSE LET g == GCD(Abs(n), Abs(d))
           s == IF d < 0 THEN -1 ELSE 1
       IN  <<(s * n) \div g, (s * d) \div g>>

ToRat(n) == <<n, 1>>
Zero == ToRat(0)
One == ToRat(1)

IsNaN(a) == a[2] = 0

RAdd(a, b) ==
  IF IsNaN(a) \/ IsNaN(b) THEN NaN
  ELSE LET g == GCD(a[2], b[2])
       IN  Rat(a[1] * (b[2] \div g) + b[1] * (a[2] \div g), (a[2] \div g) * b[2])

RNeg(a) == <<-a[1], a[2]>>

RSub(a, b) == RAdd(a, RNeg(b))

RMul(a, b) ==
  IF IsNaN(a) \/ IsNaN(b) THEN NaN
  ELSE LET g1 == GCD(Abs(a[1]), b[2])
           g2 == GCD(Abs(b[1]), a[2])
       IN  Rat((a[1] \div g1) * (b[1] \div g2), (a[2] \div g2) * (b[2] \div g1))

\* 1 / a; numpy gives nan for 0.0 / 0 and the model never divides a non-zero by 0
RInv(a) == IF IsNaN(a) THEN NaN ELSE Rat(a[2], a[1])

RDiv(a, b) == IF IsNaN(a) \/ IsNaN(b) \/ b[1] = 0 THEN NaN ELSE RMul(a, RInv(b))

RAbs(a) == <<Abs(a[1]), a[2]>>

-----------------------------------------------------------------------------
(* numpy *)

\* np.asarray([]): the empty one-dimensional array
EmptyArray == [ndim |-> 1, cols |-> <<>>]

\* a two-dimensional array of one row, given by its columns
Mat(cols) == [ndim |-> 2, cols |-> cols]

\* ndarray.size
Size(m) == Len(m.cols)

RECURSIVE ZeroSeq(_)
ZeroSeq(n) == IF n = 0 THEN <<>> ELSE Append(ZeroSeq(n - 1), Zero)

\* np.zeros((1, n)); np.zeros raises ValueError for a negative dimension
zeros(n) == Mat(ZeroSeq(n))

\* a slip: the new columns replace the old ones
hstack_replacing(a, b) == Mat(b.cols)

\* np.hstack((a, b))
hstack(a, b) == Mat(a.cols \o b.cols)

\* x if the array is empty (not a.size), else hstack
Aggregate(a, x) == IF Size(a) = 0 THEN x ELSE hstack(a, x)

\* the sum of a[k] * b[k] over the first n columns
RECURSIVE DotSeq(_, _, _)
DotSeq(a, b, n) ==
  IF n = 0 THEN Zero ELSE RAdd(DotSeq(a, b, n - 1), RMul(a[n], b[n]))

\* a.dot(b.T) for two 1 x L matrices: a 1 x 1 matrix, a scalar
DotT(a, b) == DotSeq(a.cols, b.cols, Size(a))

tanh(z) == RDiv(z, RAdd(One, RAbs(z)))

arctanh(y) == RDiv(y, RSub(One, RAbs(y)))

\* np.linalg.inv of a 1 x 1 matrix
inv(m) == RInv(m)

\* np.linalg.svd of a 1 x 1 matrix [[r]]: U = [[1]], S = [|r|].  On a nan
\* matrix LAPACK either fails to converge (numpy raises LinAlgError) or hands
\* back nan factors, depending on the build: both outcomes are kept.
svd(R) ==
  IF IsNaN(R)
  THEN {[raised |-> TRUE, U |-> NaN, S |-> NaN], [raised |-> FALSE, U |-> NaN, S |-> NaN]}
  ELSE {[raised |-> FALSE, U |-> One, S |-> RAbs(R)]}

-----------------------------------------------------------------------------
(* util.init_weights(size_in, size_net, sr, in_scale, bias_scale): a recurrent
   weight of spectral radius sr, an input weight scaled by in_scale and a bias
   scaled by bias_scale *)
init_weights == [W_star |-> ToRat(sr), W_in |-> ToRat(in_scale), W_bias |-> ToRat(bias_scale)]

EmptyCs == << <<>>, <<>>, <<>>, <<>> >>

\* Reservoir.__init__
Construct ==
  [num_pattern |-> 0,
   W_star |-> init_weights.W_star,
   W_in |-> init_weights.W_in,
   W_bias |-> init_weights.W_bias,
   W_out |-> EmptyArray,
   W |-> EmptyArray,
   x_collectors |-> <<>>,
   pattern_Rs |-> <<>>,
   UR_collectors |-> <<>>,
   SR_collectors |-> <<>>,
   pattern_collectors |-> <<>>,
   all_train_args |-> EmptyArray,
   all_train_old_args |-> EmptyArray,
   all_train_outs |-> EmptyArray,
   Cs |-> EmptyCs]

\* Reservoir.clean_storage
CleanStorage(S) ==
  [S EXCEPT !.W_out = EmptyArray,
            !.W = EmptyArray,
            !.x_collectors = <<>>,
            !.pattern_Rs = <<>>,
            !.UR_collectors = <<>>,
            !.SR_collectors = <<>>,
            !.pattern_collectors = <<>>,
            !.all_train_args = EmptyArray,
            !.all_train_old_args = EmptyArray,
            !.all_train_outs = EmptyArray,
            !.Cs = EmptyCs]

-----------------------------------------------------------------------------
(* drive_reservoir *)

\* x = np.tanh(W_star.dot(x) + W_in.dot(u) + W_bias)
Step(S, x, u) == tanh(RAdd(RAdd(RMul(S.W_star, x), RMul(S.W_in, u)), S.W_bias))

\* a slip: the first retained step is lost
RetainedLate(n, washout_length) == n > washout_length

\* if n > washout_length - 1
Retained(n, washout_length) == n > washout_length - 1

\* the body of the loop "for n in range(washout_length + learn_length)", from
\* step n on; acc holds x and the three collectors
RECURSIVE DriveLoop(_, _, _, _, _)
DriveLoop(S, pattern, washout_length, n, acc) ==
  IF n >= Len(pattern) THEN acc
  ELSE LET u == pattern[n + 1]
           x_old == acc.x
           x == Step(S, x_old, u)
           k == n - washout_length + 1
       IN  DriveLoop(S, pattern, washout_length, n + 1,
             IF Retained(n, washout_length)
             THEN [x |-> x,
                   x_collector |-> [acc.x_collector EXCEPT ![k] = x],
                   x_old_collector |-> [acc.x_old_collector EXCEPT ![k] = x_old],
                   p_collector |-> [acc.p_collector EXCEPT ![k] = u]]
             ELSE [acc EXCEPT !.x = x])

\* The outcomes of drive_reservoir(pattern, washout_length) on S: the instance
\* afterwards and whether the call raised.
Drive(S, pattern, washout_length) ==
  LET learn_length == Len(pattern) - washout_length
  IN  IF learn_length < 0
      THEN {[self |-> S, raised |-> TRUE]}    \* np.zeros: negative dimensions
      ELSE
        LET h == DriveLoop(S, pattern, washout_length, 0,
                   [x |-> Zero,
                    x_collector |-> zeros(learn_length).cols,
                    x_old_collector |-> zeros(learn_length).cols,
                    p_collector |-> zeros(learn_length).cols])
            x_collector == Mat(h.x_collector)
            x_old_collector == Mat(h.x_old_collector)
            p_collector == Mat(h.p_collector)
            S1 == [S EXCEPT !.x_collectors = Append(@, x_collector)]
            R == RDiv(DotT(x_collector, x_collector), ToRat(learn_length))
        IN  { IF f.raised
              THEN [self |-> S1, raised |-> TRUE]
              ELSE [self |->
                      [S1 EXCEPT
                         !.SR_collectors = Append(@, f.S),
                         !.UR_collectors = Append(@, f.U),
                         !.pattern_Rs = Append(@, R),
                         !.pattern_collectors = Append(@, p_collector),
                         !.all_train_args = Aggregate(@, x_collector),
                         !.all_train_old_args = Aggregate(@, x_old_collector),
                         !.all_train_outs = Aggregate(@, p_collector),
                         !.num_pattern = @ + 1],
                    raised |-> FALSE]
              : f \in svd(R) }

-----------------------------------------------------------------------------
(* compute_projector, compute_projectors *)

\* a slip: alpha ** (-1)
AlphaTermLinear(alpha) == RInv(alpha)

\* alpha ** (-2) * np.eye(size_net)
AlphaTerm(alpha) == RInv(RMul(alpha, alpha))

\* S_new = np.diag(S).dot(np.linalg.inv(np.diag(S) + alpha ** (-2) * np.eye(size_net)))
Shrink(S, alpha) == RMul(S, inv(RAdd(S, AlphaTerm(alpha))))

\* The outcomes of compute_projector(R, alpha) on S.
Projector(S, R, alpha) ==
  { IF f.raised
    THEN [self |-> S, raised |-> TRUE]
    ELSE LET S_new == Shrink(f.S, alpha)
             C == RMul(RMul(f.U, S_new), f.U)
         IN  [self |-> [S EXCEPT !.Cs = << Append(@[1], C),
                                           Append(@[2], f.U),
                                           Append(@[3], S_new),
                                           Append(@[4], f.S) >>],
              raised |-> FALSE]
    : f \in svd(R) }

\* the loop "for p in range(self.num_pattern)" of compute_projectors, from p on
\* (p counts from 0); the aperture alphas[p] is read and compute_projector is
\* called with R alone, so its default aperture applies
RECURSIVE ProjectorsLoop(_, _, _)
ProjectorsLoop(S, alphas, p) ==
  IF p >= S.num_pattern THEN {[self |-> S, raised |-> FALSE]}
  ELSE IF p + 1 > Len(S.pattern_Rs) THEN {[self |-> S, raised |-> TRUE]}  \* IndexError
  ELSE IF p + 1 > Len(alphas) THEN {[self |-> S, raised |-> TRUE]}        \* IndexError
  ELSE UNION { IF o.raised THEN {o} ELSE ProjectorsLoop(o.self, alphas, p + 1)
               : o \in Projector(S, S.pattern_Rs[p + 1], ToRat(default_alpha)) }

\* The outcomes of compute_projectors(alphas) on S; self.Cs, a list of four
\* lists, is always true, so the bundle is always reset first.
Projectors(S, alphas) == ProjectorsLoop([S EXCEPT !.Cs = EmptyCs], alphas, 0)

-----------------------------------------------------------------------------
(* compute_W_out, compute_W, train *)

\* The outcome of compute_W_out(varrho) on S.  With all_train_args still
\* np.asarray([]) the product inv(...).dot(all_train_args) raises ValueError.
ComputeWout(S, varrho) ==
  IF S.all_train_args.ndim = 1
  THEN [self |-> S, raised |-> TRUE]
  ELSE LET G == RAdd(DotT(S.all_train_args, S.all_train_args), ToRat(varrho))
       IN  [self |-> [S EXCEPT !.W_out =
                        Mat(<<RMul(inv(G), DotT(S.all_train_args, S.all_train_outs))>>)],
            raised |-> FALSE]

\* W_targets = np.arctanh(all_train_args) - repmat(W_bias, 1, total_length)
WTargets(S) == Mat([k \in 1..Size(S.all_train_args) |->
                      RSub(arctanh(S.all_train_args.cols[k]), S.W_bias)])

\* The outcome of compute_W(varrho) on S.  With all_train_args still
\* np.asarray([]), all_train_args.shape[1] raises IndexError.
ComputeW(S, varrho) ==
  IF S.all_train_args.ndim = 1
  THEN [self |-> S, raised |-> TRUE]
  ELSE LET G == RAdd(DotT(S.all_train_old_args, S.all_train_old_args), ToRat(varrho))
       IN  [self |-> [S EXCEPT !.W =
                        Mat(<<RMul(inv(G), DotT(S.all_train_old_args, WTargets(S)))>>)],
            raised |-> FALSE]

\* the loop "for i in range(len(patterns))" of train, from i on (i counts from
\* 0); done holds the drives that returned
RECURSIVE TrainLoop(_, _, _, _, _)
TrainLoop(S, patterns, washout_length, i, done) ==
  IF i >= Len(patterns) THEN {[self |-> S, raised |-> FALSE, done |-> done]}
  ELSE UNION { IF o.raised
               THEN {[self |-> o.self, raised |-> TRUE, done |-> done]}
               ELSE TrainLoop(o.self, patterns, washout_length, i + 1,
                              Append(done, <<patterns[i + 1], washout_length>>))
               : o \in Drive(S, patterns[i + 1], washout_length) }

\* The outcomes of train(patterns, washout_length) on S.
Train(S, patterns, washout_length) ==
  { IF t.raised THEN t
    ELSE LET a == ComputeWout(t.self, varrho_out)
             b == ComputeW(a.self, varrho_w)
         IN  IF a.raised THEN [self |-> a.self, raised |-> TRUE, done |-> t.done]
             ELSE [self |-> b.self, raised |-> b.raised, done |-> t.done]
    : t \in TrainLoop(S, patterns, washout_length, 0, <<>>) }

-----------------------------------------------------------------------------
(* recognition_predict.  It reads no field of the instance; testdata and the
   conceptors are integer matrices, a matrix being the sequence of its rows. *)

RECURSIVE SumUpTo(_, _)
SumUpTo(q, n) == IF n = 0 THEN 0 ELSE SumUpTo(q, n - 1) + q[n]

SumSeq(q) == SumUpTo(q, Len(q))

NRows(M) == Len(M)
NCols(M) == Len(M[1])

\* C.dot(testdata)
MatDot(C, T) ==
  [i \in 1..NRows(C) |-> [j \in 1..NCols(T) |->
     SumSeq([k \in 1..NCols(C) |-> C[i][k] * T[k][j]])]]

\* testdata * M, elementwise
Times(T, M) == [i \in 1..NRows(T) |-> [j \in 1..NCols(T) |-> T[i][j] * M[i][j]]]

\* a slip: np.sum(M), the sum of all the elements
NpSum(M) == <<SumSeq([i \in 1..NRows(M) |-> SumSeq(M[i])])>>

\* Python's builtin sum(M) of a two-dimensional array: it iterates over the
\* rows and adds them, giving one entry per column
PySum(M) == [j \in 1..NCols(M) |-> SumSeq([i \in 1..NRows(M) |-> M[i][j]])]

\* np.argmax(E, axis = 0): per column, the first row (counted from 0) holding
\* the column's maximum
ArgMax0(E) ==
  [j \in 1..NCols(E) |->
     (CHOOSE c \in 1..NRows(E) :
        /\ \A d \in 1..NRows(E) : E[d][j] <= E[c][j]
        /\ \A d \in 1..(c - 1) : E[d][j] < E[c][j]) - 1]

\* recognition_predict(testdata, C_list): evidence is np.row_stack of the
\* per-conceptor sums
Predict(testdata, C_list) ==
  LET evidence == [c \in 1..Len(C_list) |-> PySum(Times(testdata, MatDot(C_list[c], testdata)))]
  IN  [argmax |-> ArgMax0(evidence), evidence |-> evidence]

-----------------------------------------------------------------------------
\* The patterns driven are the first n samples of one periodic signal,
\* 1, 0, 1, 1, 0, 1, ..., for every n from 1 to MaxLen.
Signal(k) == ToRat(IF k % 3 = 2 THEN 0 ELSE 1)

Patterns == {[k \in 1..n |-> Signal(k)] : n \in 1..MaxLen}

\* up to MaxLen: equal to the length of the longest pattern, greater than the
\* length of the others
Washouts == 0..MaxLen

PatternLists == UNION {[1..n -> Patterns] : n \in 0..MaxPatterns}

RVals == {ToRat(0), ToRat(4)}

AlphaVals == {ToRat(1), ToRat(2)}

\* The aperture lists are the first n entries of 1, 2, 3, ..., so that every
\* position holds an aperture of its own; n runs past the number of patterns.
AlphaLists == {[k \in 1..n |-> ToRat(k)] : n \in 0..(MaxPatterns + 1)}

TestDatas == UNION {[1..PredDim -> [1..n -> 0..1]] : n \in 1..MaxCols}

\* the hard conceptor that keeps the coordinates in K
Projection(K) ==
  [i \in 1..PredDim |-> [k \in 1..PredDim |-> IF i = k /\ i \in K THEN 1 ELSE 0]]

\* a symmetric positive definite matrix that is not diagonal
Mixing == [i \in 1..PredDim |-> [k \in 1..PredDim |-> IF i = k THEN 2 ELSE 1]]

ConceptorVals == {Projection({1}), Projection({PredDim}), Mixing}

ConceptorLists == UNION {[1..n -> ConceptorVals] : n \in 1..MaxConceptors}

NoArgs == [pattern |-> <<>>, washout |-> 0, alphas |-> <<>>, R |-> Zero, alpha |-> Zero,
           testdata |-> <<>>, C_list |-> <<>>]

Call(op, raised, args) == [op |-> op, raised |-> raised, args |-> args]

Init ==
  /\ self = Construct
  /\ last = Call("__init__", FALSE, NoArgs)
  /\ driven = <<>>
  /\ ret = <<>>
  /\ misused = FALSE

drive_reservoir ==
  /\ self.num_pattern < MaxPatterns
  /\ Len(self.x_collectors) < MaxPatterns
  /\ \E pattern \in Patterns, washout_length \in Washouts :
       \E o \in Drive(self, pattern, washout_length) :
         /\ self' = o.self
         /\ last' = Call("drive_reservoir", o.raised,
                         [NoArgs EXCEPT !.pattern = pattern, !.washout = washout_length])
         /\ driven' = IF o.raised THEN driven
                      ELSE Append(driven, <<pattern, washout_length>>)
         /\ ret' = <<>>
         /\ misused' = (misused \/ washout_length >= Len(pattern))

clean_storage ==
  /\ self' = CleanStorage(self)
  /\ last' = Call("clean_storage", FALSE, NoArgs)
  /\ driven' = <<>>
  /\ ret' = <<>>
  /\ UNCHANGED misused

compute_projector ==
  /\ Len(self.Cs[1]) < MaxBundle
  /\ \E R \in RVals, alpha \in AlphaVals :
       \E o \in Projector(self, R, alpha) :
         /\ self' = o.self
         /\ last' = Call("compute_projector", o.raised,
                         [NoArgs EXCEPT !.R = R, !.alpha = alpha])
         /\ UNCHANGED <<driven, ret, misused>>

compute_projectors ==
  \E alphas \in AlphaLists :
    \E o \in Projectors(self, alphas) :
      /\ self' = o.self
      /\ last' = Call("compute_projectors", o.raised, [NoArgs EXCEPT !.alphas = alphas])
      /\ UNCHANGED <<driven, ret, misused>>

compute_W_out ==
  LET o == ComputeWout(self, varrho_out)
  IN  /\ self' = o.self
      /\ last' = Call("compute_W_out", o.raised, NoArgs)
      /\ UNCHANGED <<driven, ret, misused>>

compute_W ==
  LET o == ComputeW(self, varrho_w)
  IN  /\ self' = o.self
      /\ last' = Call("compute_W", o.raised, NoArgs)
      /\ UNCHANGED <<driven, ret, misused>>

train ==
  \E patterns \in PatternLists, washout_length \in Washouts :
    /\ self.num_pattern + Len(patterns) <= MaxPatterns
    /\ Len(self.x_collectors) + Len(patterns) <= MaxPatterns
    /\ \E o \in Train(self, patterns, washout_length) :
         /\ self' = o.self
         /\ last' = Call("train", o.raised, [NoArgs EXCEPT !.washout = washout_length])
         /\ driven' = driven \o o.done
         /\ ret' = <<>>
         /\ misused' = (misused \/ \E i \in 1..Len(patterns) :
                                     washout_length >= Len(patterns[i]))

\* recognition_predict is a pure function of its arguments: the call is
\* pending in the initial state of SpecPredict and returns once.
recognition_predict ==
  /\ last.op = "recognition_predict"
  /\ ret = <<>>
  /\ ret' = Predict(last.args.testdata, last.args.C_list)
  /\ UNCHANGED <<self, last, driven, misused>>

Next ==
  \/ drive_reservoir
  \/ train
  \/ clean_storage
  \/ compute_projector
  \/ compute_projectors
  \/ compute_W_out
  \/ compute_W

Spec == Init /\ [][Next]_vars

\* Harvesting alone.
NextHarvest ==
  \/ drive_reservoir
  \/ clean_storage

SpecHarvest == Init /\ [][NextHarvest]_vars

\* Training and weight estimation alone (train drives the patterns itself): the
\* conceptor bundle is neither read nor written by these operations.
NextTrain ==
  \/ train
  \/ clean_storage
  \/ compute_W_out
  \/ compute_W

SpecTrain == Init /\ [][NextTrain]_vars

\* Harvesting and the conceptor bundle alone: the trained weights are neither
\* read nor written by these operations.
NextProjector ==
  \/ drive_reservoir
  \/ clean_storage
  \/ compute_projector
  \/ compute_projectors

SpecProjector == Init /\ [][NextProjector]_vars

\* The evidence classifier alone: it reads and writes no field of the instance.
NextPredict == recognition_predict

InitPredict ==
  /\ self = Construct
  /\ driven = <<>>
  /\ ret = <<>>
  /\ misused = FALSE
  /\ \E testdata \in TestDatas, C_list \in ConceptorLists :
       last = Call("recognition_predict", FALSE,
                   [NoArgs EXCEPT !.testdata = testdata, !.C_list = C_list])

SpecPredict == InitPredict /\ [][NextPredict]_vars

-----------------------------------------------------------------------------
(* Properties *)

Last(q) == q[Len(q)]

PerPatternLists == <<self.x_collectors, self.pattern_Rs, self.UR_collectors,
                     self.SR_collectors, self.pattern_collectors>>

\* e = s / (s + a^-2), in the form e = s a^2 / (s a^2 + 1)
IsShrunk(e, s, a) ==
  /\ ~IsNaN(e) /\ ~IsNaN(s) /\ ~IsNaN(a)
  /\ LET t == RMul(s, RMul(a, a)) IN e = RDiv(t, RAdd(t, One))

\* Every drive_reservoir call so far met its precondition.
WellDriven == ~misused

\* C1: after compute_projectors(alphas) returns with len(alphas) = num_pattern,
\* conceptor p is the one of pattern_Rs[p] shrunk with the aperture alphas[p]
\* (stated for patterns driven with a valid washout).
C1_ApertureOfPattern ==
  (/\ WellDriven
   /\ last.op = "compute_projectors"
   /\ ~last.raised
   /\ Len(last.args.alphas) = self.num_pattern)
  => \A p \in 1..self.num_pattern :
       /\ p <= Len(self.pattern_Rs) /\ p <= Len(self.Cs[3])
       /\ self.Cs[4][p] = RAbs(self.pattern_Rs[p])
       /\ IsShrunk(self.Cs[3][p], self.Cs[4][p], last.args.alphas[p])

\* C2: after clean_storage num_pattern is 0 and the three aggregated matrices
\* are empty, and a second clean_storage changes nothing (stated for patterns
\* driven with a valid washout).
C2_CleanResets ==
  (WellDriven /\ last.op = "clean_storage")
  => /\ self.num_pattern = 0
     /\ Size(self.all_train_args) = 0
     /\ Size(self.all_train_old_args) = 0
     /\ Size(self.all_train_outs) = 0
     /\ CleanStorage(self) = self

\* C3: in every reachable state num_pattern is the common length of the five
\* per-pattern lists (stated for patterns driven with a valid washout).
C3_CountIsLength ==
  WellDriven => \A i \in 1..5 : Len(PerPatternLists[i]) = self.num_pattern

\* the state after the first n steps of pattern, from the zero state
RECURSIVE StateAfter(_, _)
StateAfter(pattern, n) ==
  IF n = 0 THEN Zero ELSE Step(self, StateAfter(pattern, n - 1), pattern[n])

\* C4: drive_reservoir with 0 <= washout < total_length stores
\* total_length - washout columns: column k holds the state after step
\* washout + k, the state before that step and the input of that step; the
\* first lagged state is the state after the washout (the zero state when
\* washout = 0); one record is appended to each per-pattern list and
\* num_pattern grows by 1.
C4_Harvest ==
  [][ (/\ last'.op = "drive_reservoir"
       /\ last'.args.washout < Len(last'.args.pattern))
      => LET pattern == last'.args.pattern
             washout == last'.args.washout
             L == Len(pattern) - washout
             X == Last(self'.x_collectors).cols
             U == Last(self'.pattern_collectors).cols
             before == Size(self.all_train_old_args)
             X_old == SubSeq(self'.all_train_old_args.cols, before + 1, before + L)
         IN  /\ ~last'.raised
             /\ self'.num_pattern = self.num_pattern + 1
             /\ Len(self'.x_collectors) = Len(self.x_collectors) + 1
             /\ Len(self'.pattern_Rs) = Len(self.pattern_Rs) + 1
             /\ Len(self'.UR_collectors) = Len(self.UR_collectors) + 1
             /\ Len(self'.SR_collectors) = Len(self.SR_collectors) + 1
             /\ Len(self'.pattern_collectors) = Len(self.pattern_collectors) + 1
             /\ Len(X) = L /\ Len(U) = L
             /\ Size(self'.all_train_old_args) = before + L
             /\ X_old[1] = StateAfter(pattern, washout)
             /\ \A k \in 1..L :
                  /\ U[k] = pattern[washout + k]
                  /\ X[k] = Step(self, X_old[k], U[k])
                  /\ k < L => X_old[k + 1] = X[k]
    ]_vars

C4_Witness ==
  /\ last.op = "drive_reservoir"
  /\ ~last.raised
  /\ last.args.washout = 1
  /\ Len(last.args.pattern) = 3
  /\ Len(self.x_collectors) = 2
  /\ Size(Last(self.x_collectors)) = 2

\* C5: compute_projectors with len(alphas) # num_pattern is rejected, and a
\* compute_projectors that fails leaves the bundle as it was before the call
\* (stated for patterns driven with a valid washout).
C5_ProjectorsAtomic ==
  [][ (WellDriven /\ last'.op = "compute_projectors")
      => /\ Len(last'.args.alphas) # self.num_pattern => last'.raised
         /\ last'.raised => self'.Cs = self.Cs
    ]_vars

\* C6: drive_reservoir with washout_length >= the pattern's length is rejected
\* and leaves the instance unchanged.
C6_WashoutRejected ==
  [][ (/\ last'.op = "drive_reservoir"
       /\ last'.args.washout >= Len(last'.args.pattern))
      => /\ last'.raised
         /\ self' = self
    ]_vars

\* the columns of the aggregated training data, as <<x, x_old, u>> triples
Examples(S) ==
  [k \in 1..Size(S.all_train_args) |->
     <<S.all_train_args.cols[k], S.all_train_old_args.cols[k], S.all_train_outs.cols[k]>>]

Count(e, q) == Cardinality({k \in 1..Len(q) : q[k] = e})

IsPermutation(q, r) ==
  /\ Len(q) = Len(r)
  /\ \A k \in 1..Len(q) : Count(q[k], q) = Count(q[k], r)

\* the instance after drive_reservoir(d[1], d[2]) returns on S
Driven(S, d) == (CHOOSE o \in Drive(S, d[1], d[2]) : ~o.raised).self

\* C7: after driving [p1, p2] from a fresh or cleaned reservoir with one
\* washout, the aggregated columns are the two harvests concatenated (their
\* number is the sum of the learn lengths) and a permutation of those that
\* driving [p2, p1] gives, and compute_W_out and compute_W give the same
\* W_out and W for both orders.
C7_OrderInvariant ==
  (/\ Len(driven) = 2
   /\ driven[1][2] = driven[2][2]
   /\ driven[1][2] < Len(driven[1][1])
   /\ driven[2][2] < Len(driven[2][1]))
  => LET swapped == Driven(Driven(CleanStorage(self), driven[2]), driven[1])
         Wout == ComputeWout(swapped, varrho_out).self.W_out
         W == ComputeW(swapped, varrho_w).self.W
     IN  /\ Size(self.all_train_args)
              = (Len(driven[1][1]) - driven[1][2]) + (Len(driven[2][1]) - driven[2][2])
         /\ Size(self.all_train_old_args) = Size(self.all_train_args)
         /\ Size(self.all_train_outs) = Size(self.all_train_args)
         /\ IsPermutation(Examples(self), Examples(swapped))
         /\ ComputeWout(self, varrho_out).self.W_out = Wout
         /\ ComputeW(self, varrho_w).self.W = W
         /\ (last.op \in {"train", "compute_W_out"} /\ ~last.raised) => self.W_out = Wout
         /\ (last.op \in {"train", "compute_W"} /\ ~last.raised) => self.W = W

C7_Witness ==
  /\ Len(driven) = 2
  /\ driven[1][2] = 1 /\ driven[2][2] = 1
  /\ Len(driven[1][1]) = 3 /\ Len(driven[2][1]) = 2
  /\ last.op = "train" /\ ~last.raised
  /\ Examples(self) # Examples(Driven(Driven(CleanStorage(self), driven[2]), driven[1]))

\* column j of testdata
Column(T, j) == [i \in 1..NRows(T) |-> T[i][j]]

\* the quadratic form t' C t
QuadraticForm(C, t) ==
  SumSeq([i \in 1..Len(t) |-> SumSeq([k \in 1..Len(t) |-> t[i] * C[i][k] * t[k]])])

\* C8, as stated: recognition_predict gives each conceptor one scalar, the sum
\* of testdata * (C.testdata) over all rows and all columns, and returns the
\* index of the conceptor whose scalar is largest.
C8_PooledEvidence ==
  ret # <<>>
  => LET T == last.args.testdata
         Cl == last.args.C_list
         pooled == [c \in 1..Len(Cl) |->
                      SumSeq([j \in 1..NCols(T) |-> QuadraticForm(Cl[c], Column(T, j))])]
     IN  /\ Len(ret.evidence) = Len(Cl)
         /\ \A c \in 1..Len(Cl) : ret.evidence[c] = <<pooled[c]>>
         /\ Len(ret.argmax) = 1
         /\ \A c \in 1..Len(Cl) : pooled[c] <= pooled[ret.argmax[1] + 1]

\* C8, amended: recognition_predict gives each conceptor one evidence value
\* per column of testdata, the quadratic form of that column, and returns per
\* column the index (from 0) of the first conceptor whose value is largest.
C8_PerColumnEvidence ==
  ret # <<>>
  => LET T == last.args.testdata
         Cl == last.args.C_list
     IN  /\ Len(ret.evidence) = Len(Cl)
         /\ Len(ret.argmax) = NCols(T)
         /\ \A c \in 1..Len(Cl) :
              /\ Len(ret.evidence[c]) = NCols(T)
              /\ \A j \in 1..NCols(T) :
                   ret.evidence[c][j] = QuadraticForm(Cl[c], Column(T, j))
         /\ \A j \in 1..NCols(T) :
              LET best == ret.argmax[j] + 1
              IN  /\ best \in 1..Len(Cl)
                  /\ \A c \in 1..Len(Cl) :
                       /\ ret.evidence[c][j] <= ret.evidence[best][j]
                       /\ c < best => ret.evidence[c][j] < ret.evidence[best][j]

C8_Witness ==
  /\ ret # <<>>
  /\ NCols(last.args.testdata) = 2
  /\ Len(last.args.C_list) = 2
  /\ ret.argmax = <<0, 1>>
  /\ ret.evidence[1] # ret.evidence[2]

\* C9: compute_projector(R, a) with R >= 0 and a > 0 stores the singular
\* value s = R and the shrunk eigenvalue s / (s + a^-2), which lies in [0, 1)
\* and is 0 exactly when s is 0; compute_projectors stores the same with the
\* default aperture for every pattern driven with a valid washout.
C9_ShrunkEigenvalue ==
  /\ (last.op = "compute_projector" /\ ~last.raised)
     => LET e == Last(self.Cs[3])
            s == Last(self.Cs[4])
        IN  /\ s = last.args.R
            /\ IsShrunk(e, s, last.args.alpha)
            /\ 0 <= e[1] /\ e[1] < e[2]
            /\ e[1] = 0 <=> s[1] = 0
  /\ (last.op = "compute_projectors" /\ ~last.raised)
     => \A p \in 1..Len(self.Cs[3]) :
          ~IsNaN(self.pattern_Rs[p])
          => /\ self.Cs[4][p] = self.pattern_Rs[p]
             /\ IsShrunk(self.Cs[3][p], self.Cs[4][p], ToRat(default_alpha))
             /\ 0 <= self.Cs[3][p][1] /\ self.Cs[3][p][1] < self.Cs[3][p][2]

C9_Witness ==
  /\ last.op = "compute_projector"
  /\ ~last.raised
  /\ last.args.R = ToRat(4)
  /\ last.args.alpha = ToRat(2)
  /\ Last(self.Cs[3]) = <<16, 17>>

\* C10: the four sequences of the bundle have equal length in every reachable
\* state, and compute_projectors(alphas) with len(alphas) = num_pattern
\* returns and leaves exactly num_pattern entries in each, entry p that of the
\* p-th driven pattern (stated for patterns driven with a valid washout).
C10_BundleWholesale ==
  /\ \A i \in 1..4 : Len(self.Cs[i]) = Len(self.Cs[1])
  /\ (/\ WellDriven
      /\ last.op = "compute_projectors"
      /\ Len(last.args.alphas) = self.num_pattern)
     => /\ ~last.raised
        /\ Len(self.Cs[1]) = self.num_pattern
        /\ \A p \in 1..self.num_pattern :
             /\ p <= Len(self.SR_collectors)
             /\ self.Cs[4][p] = self.SR_collectors[p]

=============================================================================
